---- MODULE Spec2Model ----
(***************************************************************************)
(* State-machine model of src/search.py: the research pipeline            *)
(* run_research_pipeline and the agents it calls.  A Python str is a      *)
(* sequence of one-character strings; a Python list is a sequence.        *)
(* Every external call (the completion service, the search provider) is   *)
(* one step whose response is drawn from a bounded set.                   *)
(***************************************************************************)
EXTENDS Integers, Sequences, FiniteSets, TLC

VARIABLES pc, BUDGET, MAX_QUERIES, MAX_SOURCES,
          queries, cycle, search_results, summaries, all_sources,
          new_queries, filtered, selected_sources, report,
          call, ncalls

vars == <<pc, BUDGET, MAX_QUERIES, MAX_SOURCES,
          queries, cycle, search_results, summaries, all_sources,
          new_queries, filtered, selected_sources, report,
          call, ncalls>>

(* ------------------- parameters (search.py 20-25) --------------------- *)
\* the values the module sets; a session may run under any setting up to them
DefaultBUDGET == 2
DefaultMAX_QUERIES == 2
DefaultMAX_SOURCES == 10

(* ------------------------------ bounds --------------------------------- *)
\* MAX_SOURCES is also tried at 1..MaxSourcesCfg, so that the slice can cut
MaxSourcesCfg == 2
\* longest ranking response
MaxRankLen == 2

(* ------------------------- strings and lists --------------------------- *)
Min(S) == CHOOSE m \in S : \A n \in S : m <= n

Strings(alphabet, n) == UNION {[1..k -> alphabet] : k \in 0..n}

\* str.isspace for one character
IsSpace(c) == c \in {" ", "\n"}

\* str.strip(): drop the whitespace at both ends
Strip(s) ==
    LET keep == {i \in 1..Len(s) : ~IsSpace(s[i])}
    IN  IF keep = {} THEN <<>>
        ELSE SubSeq(s, Min(keep), CHOOSE m \in keep : \A n \in keep : n <= m)

\* str.split(sep) for a one-character separator: always at least one piece
RECURSIVE Split(_, _)
Split(s, sep) ==
    LET at == {i \in 1..Len(s) : s[i] = sep}
    IN  IF at = {} THEN <<s>>
        ELSE <<SubSeq(s, 1, Min(at) - 1)>>
             \o Split(SubSeq(s, Min(at) + 1, Len(s)), sep)

\* sep.join(parts)
RECURSIVE Join(_, _)
Join(parts, sep) ==
    IF parts = <<>> THEN <<>>
    ELSE IF Len(parts) = 1 THEN parts[1]
    ELSE parts[1] \o sep \o Join(Tail(parts), sep)

\* lst[:n] for n >= 0
Slice(lst, n) == SubSeq(lst, 1, IF n < Len(lst) THEN n ELSE Len(lst))

\* any(lst) for a list of str: some element is a non-empty string
AnyTrue(lst) == \E i \in 1..Len(lst) : lst[i] # <<>>

\* lst[k] with Python's index rule: a negative k counts from the end
PyIndex(lst, k) == IF k >= 0 THEN lst[k + 1] ELSE lst[Len(lst) + k + 1]

(* ----------------------- the external services ------------------------- *)
Topic == <<"t">>

RankAlphabet == {"0", "1", "2", ",", "²"}

\* raw completion texts, before call_openai strips them: empty, whitespace
\* only, one line, one line and a trailing newline, two lines, a line twice
QueryResponses == {<<>>, <<" ">>, <<"a">>, <<"a", "\n">>, <<"a", "\n", "b">>,
                   <<"a", "\n", "a">>}
PlanResponses == QueryResponses
EvalResponses == QueryResponses
RankResponses == Strings(RankAlphabet, MaxRankLen)
SummaryResponses == {<<"x">>, <<"y", " ">>}
ReportResponses == {<<>>, <<"[", "R", "e", "f">>}

\* the provider's JSON reply: no "results" key, or a list of documents
Doc == [title |-> <<"T">>, content |-> <<"c">>]
SearchData == {[has_results |-> FALSE, results |-> <<>>],
               [has_results |-> TRUE, results |-> <<>>],
               [has_results |-> TRUE, results |-> <<Doc>>]}

\* a call_openai that forgets .strip()
call_openai_nostrip(content) == content

\* call_openai: the completion text, stripped
call_openai(content) == Strip(content)

NoResultsFor == <<"N", "o", " ", "r", "e", "s", "u", "l", "t", "s", " ",
                  "f", "o", "r", ":", " ">>
TitleLabel == <<"T", "i", "t", "l", "e", ":", " ">>
ContentLabel == <<"\n", "C", "o", "n", "t", "e", "n", "t", ":", " ">>

\* tavily_search: the documents rendered as text, or the placeholder
tavily_search(query, data) ==
    IF data.has_results
    THEN Join([i \in 1..Len(data.results) |->
                 TitleLabel \o data.results[i].title
                 \o ContentLabel \o data.results[i].content],
              <<"\n", "\n">>)
    ELSE NoResultsFor \o query

(* ------------------------------ agents --------------------------------- *)
\* a planning_agent that forgets [:MAX_QUERIES]
planning_agent_noslice(content) == Split(call_openai(content), "\n")

planning_agent(content) == Slice(Split(call_openai(content), "\n"), MAX_QUERIES)

summarizer_agent(content) == call_openai(content)

evaluator_agent(content) == Split(call_openai(content), "\n")

\* str.isdigit for one character; int() accepts the ASCII digits only
IsDigit(c) == c \in {"0", "1", "2", "²"}
IntValue == [c \in {"0", "1", "2"} |-> CASE c = "0" -> 0 [] c = "1" -> 1 [] c = "2" -> 2]

\* a comprehension that forgets the isdigit() test
IsDigitToken_any(c) == TRUE

\* s.strip().isdigit() for a character s of the ranking response
IsDigitToken(c) == Strip(<<c>>) # <<>> /\ IsDigit(c)

\* the characters of the ranking response that the comprehension keeps
DigitChars(response) == SelectSeq(response, IsDigitToken)

\* int(s) raises ValueError on a digit character that is not a decimal digit
filter_raises(content) ==
    \E i \in 1..Len(call_openai(content)) :
        /\ IsDigitToken(call_openai(content)[i])
        /\ call_openai(content)[i] \notin DOMAIN IntValue

\* a filter_agent that forgets [:MAX_SOURCES]
filter_agent_noslice(content) ==
    LET kept == DigitChars(call_openai(content))
    IN  [i \in 1..Len(kept) |-> IntValue[kept[i]]]

filter_agent(content) ==
    LET kept == DigitChars(call_openai(content))
    IN  Slice([i \in 1..Len(kept) |-> IntValue[kept[i]]], MAX_SOURCES)

\* a selection that walks the pool and keeps the entries the indices name
select_sources_pool_order(sources, indices) ==
    LET named(k) == \E j \in 1..Len(indices) : indices[j] = k
        picks == SelectSeq([k \in 1..Len(sources) |-> k], named)
    IN  [k \in 1..Len(picks) |-> sources[picks[k]]]

\* [all_sources[i-1] for i in filtered if i-1 < len(all_sources)]
select_sources(sources, indices) ==
    LET ok(i) == i - 1 < Len(sources)
        kept == SelectSeq(indices, ok)
    IN  [k \in 1..Len(kept) |-> PyIndex(sources, kept[k] - 1)]

\* all_sources[i-1] raises IndexError when i-1 is below -len(all_sources)
select_raises(sources, indices) ==
    \E k \in 1..Len(indices) :
        /\ indices[k] - 1 < Len(sources)
        /\ indices[k] - 1 < 0 - Len(sources)

(* --------------------------- the orchestrator --------------------------- *)
\* range(BUDGET + 2): one cycle too many
in_range_over(c) == c < BUDGET + 2

\* range(BUDGET): one cycle too few
in_range_under(c) == c < BUDGET

\* for cycle in range(BUDGET + 1): c is a value of the range
in_range(c) == c < BUDGET + 1

\* more + lst instead of lst.extend(more)
extend_front(lst, more) == more \o lst

\* a pool that keeps only the summaries of the latest cycle
extend_replace(lst, more) == more

\* lst.extend(more)
extend(lst, more) == lst \o more

\* an evaluation of the whole pool
evaluator_input_pool == all_sources

\* evaluator_agent(summaries, topic): the list the evaluator is given
evaluator_input == summaries

Fns == {"planning", "search", "summarize", "evaluate", "filter", "answer"}

NoCall == [fn |-> "none", arg |-> <<>>, ret |-> <<>>]

\* a summarizer that answers for an empty text without a completion request
Called_skip_empty(fn, arg, ret) ==
    IF fn = "summarize" /\ arg = <<>>
    THEN UNCHANGED <<call, ncalls>>
    ELSE /\ call' = [fn |-> fn, arg |-> arg, ret |-> ret]
         /\ ncalls' = [ncalls EXCEPT ![fn] = @ + 1]

Called(fn, arg, ret) ==
    /\ call' = [fn |-> fn, arg |-> arg, ret |-> ret]
    /\ ncalls' = [ncalls EXCEPT ![fn] = @ + 1]

Init ==
    /\ pc = "plan"
    /\ BUDGET \in 0..DefaultBUDGET
    /\ MAX_QUERIES \in 1..DefaultMAX_QUERIES
    /\ MAX_SOURCES \in (1..MaxSourcesCfg) \cup {DefaultMAX_SOURCES}
    /\ queries = <<>>
    /\ cycle = 0
    /\ search_results = <<>>
    /\ summaries = <<>>
    /\ all_sources = <<>>
    /\ new_queries = <<>>
    /\ filtered = <<>>
    /\ selected_sources = <<>>
    /\ report = <<>>
    /\ call = NoCall
    /\ ncalls = [f \in Fns |-> 0]

\* queries = planning_agent(topic); all_sources = []; enter cycle 0
Plan ==
    /\ pc = "plan"
    /\ \E content \in PlanResponses :
        /\ queries' = planning_agent(content)
        /\ Called("planning", Topic, call_openai(content))
    /\ all_sources' = <<>>
    /\ cycle' = 0
    /\ search_results' = <<>>
    /\ summaries' = <<>>
    /\ pc' = IF in_range(0) THEN "search" ELSE "filter"
    /\ UNCHANGED <<BUDGET, MAX_QUERIES, MAX_SOURCES, new_queries, filtered,
                   selected_sources, report>>

\* one element of [tavily_search(q) for q in queries]
Search ==
    /\ pc = "search"
    /\ Len(search_results) < Len(queries)
    /\ \E data \in SearchData :
        LET q == queries[Len(search_results) + 1]
            r == tavily_search(q, data)
        IN  /\ search_results' = Append(search_results, r)
            /\ Called("search", q, r)
    /\ pc' = IF Len(search_results) + 1 = Len(queries) THEN "summarize" ELSE "search"
    /\ UNCHANGED <<BUDGET, MAX_QUERIES, MAX_SOURCES, queries, cycle, summaries,
                   all_sources, new_queries, filtered, selected_sources, report>>

\* one element of [summarizer_agent(r, topic) for r in search_results];
\* after the last one, all_sources.extend(summaries)
Summarize ==
    /\ pc = "summarize"
    /\ Len(summaries) < Len(search_results)
    /\ \E content \in SummaryResponses :
        LET r == search_results[Len(summaries) + 1]
            s == summarizer_agent(content)
            done == Len(summaries) + 1 = Len(search_results)
        IN  /\ summaries' = Append(summaries, s)
            /\ Called("summarize", r, s)
            /\ all_sources' = IF done THEN extend(all_sources, Append(summaries, s))
                              ELSE all_sources
            /\ pc' = IF done THEN "evaluate" ELSE "summarize"
    /\ UNCHANGED <<BUDGET, MAX_QUERIES, MAX_SOURCES, queries, cycle,
                   search_results, new_queries, filtered, selected_sources, report>>

\* new_queries = evaluator_agent(summaries, topic); break, or queries =
\* new_queries and the next value of range(BUDGET + 1), if there is one.
\* search_results and summaries are rebound by the next cycle and read by
\* nothing after the loop: they are emptied when the loop body ends.
Evaluate ==
    /\ pc = "evaluate"
    /\ \E content \in EvalResponses :
        LET nq == evaluator_agent(content)
        IN  /\ new_queries' = nq
            /\ Called("evaluate", evaluator_input, call_openai(content))
            /\ IF ~AnyTrue(nq)
               THEN /\ pc' = "filter"
                    /\ search_results' = <<>>
                    /\ summaries' = <<>>
                    /\ UNCHANGED <<queries, cycle>>
               ELSE /\ queries' = nq
                    /\ IF in_range(cycle + 1)
                       THEN /\ cycle' = cycle + 1
                            /\ search_results' = <<>>
                            /\ summaries' = <<>>
                            /\ pc' = "search"
                       ELSE /\ pc' = "filter"
                            /\ search_results' = <<>>
                            /\ summaries' = <<>>
                            /\ UNCHANGED cycle
    /\ UNCHANGED <<BUDGET, MAX_QUERIES, MAX_SOURCES, all_sources, filtered,
                   selected_sources, report>>

\* filtered = filter_agent(all_sources); selected_sources = [...]; an
\* exception of either statement ends the session
Filter ==
    /\ pc = "filter"
    /\ \E content \in RankResponses :
        /\ Called("filter", all_sources, call_openai(content))
        /\ IF \/ filter_raises(content)
              \/ select_raises(all_sources, filter_agent(content))
           THEN /\ pc' = "raised"
                /\ UNCHANGED <<filtered, selected_sources>>
           ELSE /\ filtered' = filter_agent(content)
                /\ selected_sources' = select_sources(all_sources, filter_agent(content))
                /\ pc' = "answer"
    /\ UNCHANGED <<BUDGET, MAX_QUERIES, MAX_SOURCES, queries, cycle,
                   search_results, summaries, all_sources, new_queries, report>>

\* report = answer_agent(selected_sources, topic); print(report)
Answer ==
    /\ pc = "answer"
    /\ \E content \in ReportResponses :
        /\ report' = call_openai(content)
        /\ Called("answer", selected_sources, call_openai(content))
    /\ pc' = "done"
    /\ UNCHANGED <<BUDGET, MAX_QUERIES, MAX_SOURCES, queries, cycle,
                   search_results, summaries, all_sources, new_queries,
                   filtered, selected_sources>>

Next == Plan \/ Search \/ Summarize \/ Evaluate \/ Filter \/ Answer

Spec == Init /\ [][Next]_vars

\* what a failed external call leaves in place of a response
ServiceErrorValue == <<"ServiceError">>

\* the arguments of the external call that the session is about to make
PendingCall ==
    CASE pc = "plan" -> [fn |-> "planning", arg |-> Topic]
      [] pc = "search" -> [fn |-> "search", arg |-> queries[Len(search_results) + 1]]
      [] pc = "summarize" -> [fn |-> "summarize", arg |-> search_results[Len(summaries) + 1]]
      [] pc = "evaluate" -> [fn |-> "evaluate", arg |-> evaluator_input]
      [] pc = "filter" -> [fn |-> "filter", arg |-> all_sources]
      [] pc = "answer" -> [fn |-> "answer", arg |-> selected_sources]

\* an external call that is tried again after its exception
ServiceError_retry ==
    /\ pc \in {"plan", "search", "summarize", "evaluate", "filter", "answer"}
    /\ Called(PendingCall.fn, PendingCall.arg, ServiceErrorValue)
    /\ UNCHANGED <<pc, BUDGET, MAX_QUERIES, MAX_SOURCES, queries, cycle,
                   search_results, summaries, all_sources, new_queries,
                   filtered, selected_sources, report>>

\* openai.ChatCompletion.create or requests.post raises: nothing catches the
\* exception, it leaves run_research_pipeline and the session is over
ServiceError ==
    /\ pc \in {"plan", "search", "summarize", "evaluate", "filter", "answer"}
    /\ Called(PendingCall.fn, PendingCall.arg, ServiceErrorValue)
    /\ pc' = "raised"
    /\ UNCHANGED <<BUDGET, MAX_QUERIES, MAX_SOURCES, queries, cycle,
                   search_results, summaries, all_sources, new_queries,
                   filtered, selected_sources, report>>

NextErr == Next \/ ServiceError

\* the sessions in which external calls may fail
SpecErr == Init /\ [][NextErr]_vars

\* FINALIZE and after: the loop is over
Final == {"filter", "answer", "done", "raised"}

TypeOK ==
    /\ pc \in {"plan", "search", "summarize", "evaluate"} \cup Final
    /\ BUDGET \in Nat /\ MAX_QUERIES \in Nat /\ MAX_SOURCES \in Nat
    /\ cycle \in 0..BUDGET
    /\ ncalls \in [Fns -> Nat]
    /\ call.fn \in Fns \cup {"none"}

(* ------------------------------- claims -------------------------------- *)
Range(s) == {s[i] : i \in DOMAIN s}

\* a line is blank when it is empty or whitespace only
IsBlank(s) == \A i \in 1..Len(s) : IsSpace(s[i])

\* cycles begun so far: one evaluation ends each cycle
CyclesBegun ==
    ncalls["evaluate"] + (IF pc \in {"search", "summarize", "evaluate"} THEN 1 ELSE 0)

AllBlank(lst) == \A i \in 1..Len(lst) : IsBlank(lst[i])

\* C1: whatever the services answer, at most BUDGET + 1 search/summarize
\* cycles are begun, and selection starts only after the loop.
C1_CycleBound ==
    /\ CyclesBegun <= BUDGET + 1
    /\ ncalls["filter"] > 0 => pc \in Final

C1_Witness ==
    /\ pc = "filter"
    /\ BUDGET = DefaultBUDGET
    /\ ncalls["evaluate"] = BUDGET + 1

\* C2: once an evaluation has returned only blank entries the loop is over:
\* the pipeline is in FINALIZE, every search made has its summary in the pool
\* (none was issued after that evaluation), and when that evaluation was the
\* one of cycle 0 exactly one cycle has run, for the planner's queries only.
C2_BlankStops ==
    (ncalls["evaluate"] > 0 /\ AllBlank(new_queries)) =>
        /\ pc \in Final
        /\ ncalls["evaluate"] = cycle + 1
        /\ ncalls["search"] = Len(all_sources)
        /\ cycle = 0 => (ncalls["evaluate"] = 1 /\ ncalls["search"] = Len(queries))

C2_Witness ==
    /\ pc = "done"
    /\ BUDGET = DefaultBUDGET
    /\ ncalls["evaluate"] = 1
    /\ AllBlank(new_queries)

\* C3: the search and summarize calls of a session number at most
\* (BUDGET + 1) * MAX_QUERIES * 2, every cycle issuing at most MAX_QUERIES
\* queries.
C3_CallBound ==
    /\ ncalls["search"] + ncalls["summarize"] <= (BUDGET + 1) * MAX_QUERIES * 2
    /\ pc \in {"search", "summarize", "evaluate"} => Len(queries) <= MAX_QUERIES

\* the labels of the pool: 1..|EvidencePool|
Labels == 1..Len(all_sources)

InLabels(i) == i \in Labels

\* the ranking response, while the selector's call is the latest one
RankingResponse == call.ret

NoDigitChar(response) == \A i \in 1..Len(response) : ~IsDigit(response[i])

\* C4: a selector index outside 1..|EvidencePool| (0 included) selects no
\* pool entry: the summaries picked are as many as the indices inside the
\* range, each the pool entry its index names.
C4_IndexInRange ==
    pc \in {"answer", "done"} =>
        LET inside == SelectSeq(filtered, InLabels)
        IN  /\ Len(selected_sources) = Len(inside)
            /\ \A k \in 1..Len(inside) : selected_sources[k] = all_sources[inside[k]]

\* C5: the Source Selector's output holds no index twice.
C5_NoDuplicateIndex ==
    pc \in {"answer", "done"} =>
        \A i, j \in 1..Len(filtered) : i # j => filtered[i] # filtered[j]

\* C6: the Source Selector returns at most MAX_SOURCES indices, so at most
\* MAX_SOURCES summaries are selected and handed to the Report Synthesizer.
C6_AtMostMaxSources ==
    /\ Len(filtered) <= MAX_SOURCES
    /\ Len(selected_sources) <= MAX_SOURCES
    /\ call.fn = "answer" => Len(call.arg) <= MAX_SOURCES

C6_Witness ==
    /\ pc = "answer"
    /\ call.fn = "filter"
    /\ Len(DigitChars(RankingResponse)) > MAX_SOURCES
    /\ Len(filtered) = MAX_SOURCES

\* a step that makes one more call of fn
Calls(fn) == ncalls'[fn] = ncalls[fn] + 1

\* the queries of the cycles whose summaries are in the pool: in the loop
\* body the searches already made for the running cycle are not counted
QueriesOfCompletedCycles ==
    ncalls["search"] - (IF pc \in {"search", "summarize"} THEN Len(search_results) ELSE 0)

\* a search step searches the next query of the cycle, in order
SearchInOrder ==
    Calls("search") =>
        /\ call'.arg = queries[Len(search_results) + 1]
        /\ search_results' = Append(search_results, call'.ret)
        /\ all_sources' = all_sources

\* a summarize step summarizes the next search result, in order; the pool
\* grows by the cycle's summaries, in order, once the last one is made
SummarizeInOrder ==
    Calls("summarize") =>
        /\ call'.arg = search_results[Len(summaries) + 1]
        /\ summaries' = Append(summaries, call'.ret)
        /\ all_sources' = IF Len(summaries') = Len(queries)
                          THEN all_sources \o summaries'
                          ELSE all_sources

\* C7: the pool is as long as the number of queries issued in the completed
\* cycles, and its k-th entry is the summary of the k-th query issued: in
\* every cycle the j-th search is for the j-th query, the j-th summary is of
\* the j-th search result, and the cycle's summaries are appended in order.
C7_PoolFollowsQueries ==
    /\ [](Len(all_sources) = QueriesOfCompletedCycles)
    /\ [][SearchInOrder /\ SummarizeInOrder]_vars

C7_Witness ==
    /\ pc = "evaluate"
    /\ cycle = 2
    /\ Len(all_sources) = 5
    /\ all_sources[1] # all_sources[2]
    /\ all_sources[4] # all_sources[5]

AnyNonBlank(lst) == \E i \in 1..Len(lst) : ~IsBlank(lst[i])

\* from FINALIZE on, no search, summarize or evaluate call is made
LoopIsOver ==
    pc \in Final =>
        /\ pc' \in Final
        /\ ncalls'["search"] = ncalls["search"]
        /\ ncalls'["summarize"] = ncalls["summarize"]
        /\ ncalls'["evaluate"] = ncalls["evaluate"]

\* C8: when the loop is over and the last evaluation returned a non-blank
\* follow-up (so every evaluation did), exactly BUDGET + 1 cycles have run,
\* the follow-ups of the last cycle are the current queries and none of them
\* was searched: every search made has its summary in the pool, and from
\* FINALIZE on no search, summarize or evaluate call is made.
C8_BudgetExhaustion ==
    /\ []((pc \in Final /\ AnyNonBlank(new_queries)) =>
            /\ ncalls["evaluate"] = BUDGET + 1
            /\ cycle = BUDGET
            /\ queries = new_queries
            /\ ncalls["search"] = Len(all_sources)
            /\ ncalls["summarize"] = Len(all_sources))
    /\ [][LoopIsOver]_vars

C8_Witness ==
    /\ pc = "done"
    /\ BUDGET = DefaultBUDGET
    /\ AnyNonBlank(new_queries)
    /\ Len(new_queries) = 2
    /\ ncalls["evaluate"] = BUDGET + 1

\* the selector's indices that pass the guard i-1 < len(all_sources): the
\* k-th of them picks the k-th summary handed to the Report Synthesizer
GuardedIndices == SelectSeq(filtered, LAMBDA i : i - 1 < Len(all_sources))

\* C9 as stated: the summaries handed to the Report Synthesizer are in pool
\* order: of two different summaries selected by their labels, the one that
\* comes first in the pool comes first in the synthesizer's input.
C9_PoolOrder ==
    pc \in {"answer", "done"} =>
        \A j, k \in 1..Len(selected_sources) :
            (/\ j < k
             /\ GuardedIndices[j] \in Labels
             /\ GuardedIndices[k] \in Labels
             /\ GuardedIndices[j] > GuardedIndices[k])
            => selected_sources[j] = selected_sources[k]

\* C9 as amended: the summaries handed to the Report Synthesizer are entries
\* of the pool in the order of the Source Selector's indices: there is one
\* per index that is at most |EvidencePool|, and the k-th one is the pool
\* entry that the k-th such index names when the index is in 1..|EvidencePool|.
C9_SelectionOrder ==
    pc \in {"answer", "done"} =>
        LET kept == SelectSeq(filtered, LAMBDA i : i <= Len(all_sources))
        IN  /\ Len(selected_sources) = Len(kept)
            /\ \A k \in 1..Len(kept) :
                  /\ selected_sources[k] \in Range(all_sources)
                  /\ kept[k] \in Labels => selected_sources[k] = all_sources[kept[k]]
            /\ pc = "done" => call.arg = selected_sources

C9_Witness ==
    /\ pc = "done"
    /\ filtered = <<2, 1>>
    /\ Len(selected_sources) = 2
    /\ selected_sources[1] # selected_sources[2]

\* C10: a ranking response without a digit character gives the empty
\* selection and does not abort; the Report Synthesizer is then called once,
\* on the empty list, and its text is the report.
C10_EmptySelection ==
    /\ (call.fn = "filter" /\ NoDigitChar(RankingResponse)) =>
           /\ pc = "answer"
           /\ filtered = <<>>
           /\ selected_sources = <<>>
    /\ (pc = "done" /\ filtered = <<>>) =>
           /\ call.fn = "answer"
           /\ call.arg = <<>>
           /\ report = call.ret
           /\ ncalls["answer"] = 1
    /\ pc = "answer" => ENABLED Answer

C10_Witness ==
    /\ pc = "done"
    /\ filtered = <<>>
    /\ selected_sources = <<>>
    /\ ncalls["filter"] = 1
    /\ ncalls["answer"] = 1
    /\ report # <<>>

\* C11: within one cycle no query string is sent to the Search Client twice:
\* the queries already searched in the running cycle are pairwise different.
C11_QueriesAreASet ==
    pc \in {"search", "summarize", "evaluate"} =>
        \A i, j \in 1..Len(search_results) : i # j => queries[i] # queries[j]

\* the latest external call failed
Failed == call.ret = ServiceErrorValue

\* C12: a failed external call ends the session at that call: the pipeline
\* has stopped with the exception, no step follows (no retry, no later call)
\* and no report has been emitted.
C12_FailureEndsSession ==
    Failed =>
        /\ pc = "raised"
        /\ ~ENABLED NextErr
        /\ report = <<>>
        /\ ncalls["answer"] = (IF call.fn = "answer" THEN 1 ELSE 0)

C12_Witness ==
    /\ Failed
    /\ call.fn = "summarize"
    /\ cycle = 1
    /\ Len(all_sources) > 0

\* C13: for every completion response the Query Planner returns at least one
\* and at most MAX_QUERIES queries, and a response of a single line (the
\* empty one included) comes back as the one query.
C13_PlannerQueries ==
    call.fn = "planning" =>
        /\ Len(queries) >= 1
        /\ Len(queries) <= MAX_QUERIES
        /\ "\n" \notin Range(call.ret) => queries = <<call.ret>>

C13_Witness ==
    /\ call.fn = "planning"
    /\ call.ret = <<>>
    /\ queries = <<<<>>>>
    /\ MAX_QUERIES = DefaultMAX_QUERIES

\* the number a run of decimal digits writes
RECURSIVE DecimalValue(_)
DecimalValue(run) ==
    IF run = <<>> THEN 0
    ELSE 10 * DecimalValue(SubSeq(run, 1, Len(run) - 1)) + IntValue[run[Len(run)]]

\* the values of the maximal runs of digits of a text, in order of appearance
RECURSIVE TokenValues(_)
TokenValues(s) ==
    IF s = <<>> THEN <<>>
    ELSE IF ~IsDigit(s[1]) THEN TokenValues(Tail(s))
    ELSE LET stops == {i \in 1..Len(s) : ~IsDigit(s[i])}
             n == IF stops = {} THEN Len(s) ELSE Min(stops) - 1
         IN  <<DecimalValue(SubSeq(s, 1, n))>> \o TokenValues(SubSeq(s, n + 1, Len(s)))

\* C14: the indices the Source Selector returns are the values of the
\* maximal digit-only tokens of the ranking response, in order of appearance
\* (the first MAX_SOURCES of them): the token "12" is the one index 12.
C14_WholeTokens ==
    (pc = "answer" /\ call.fn = "filter") =>
        filtered = Slice(TokenValues(RankingResponse), MAX_SOURCES)

\* the text starts with the given text
StartsWith(s, head) == Len(s) >= Len(head) /\ SubSeq(s, 1, Len(head)) = head

\* C15: the Search Client returns the "no results" placeholder of the query
\* or the rendering of at least one document, never the empty text: an
\* empty result list gives the placeholder as a missing one does.
C15_PlaceholderOnEmpty ==
    call.fn = "search" =>
        /\ call.ret # <<>>
        /\ \/ call.ret = NoResultsFor \o call.arg
           \/ StartsWith(call.ret, TitleLabel)

\* an evaluation step is given the summaries of the running cycle: one per
\* query of the cycle, the entries the cycle appended to the pool, in order
EvaluatesCycleSummaries ==
    Calls("evaluate") =>
        /\ Len(call'.arg) = Len(queries)
        /\ call'.arg = SubSeq(all_sources, Len(all_sources) - Len(queries) + 1,
                              Len(all_sources))

\* C16: in every cycle the Gap Evaluator is called with exactly the
\* summaries produced in that cycle, never with those of earlier cycles.
C16_EvaluatorInput == [][EvaluatesCycleSummaries]_vars

C16_Witness ==
    /\ call.fn = "evaluate"
    /\ ncalls["evaluate"] = 2
    /\ Len(call.arg) = 2
    /\ Len(all_sources) = 3

\* search results of the running cycle that have not been summarized yet
Unsummarized ==
    IF pc \in {"search", "summarize"} THEN Len(search_results) - Len(summaries)
    ELSE 0

\* C17: in every cycle the Evidence Summarizer is invoked exactly once per
\* query of the cycle, whatever text the search returned (placeholder or
\* empty text included): summarize calls equal search calls, none skipped.
C17_OneSummaryPerQuery ==
    /\ ncalls["summarize"] + Unsummarized = ncalls["search"]
    /\ pc = "summarize" => Len(search_results) = Len(queries)
    /\ pc = "evaluate" =>
          /\ Len(search_results) = Len(queries)
          /\ Len(summaries) = Len(queries)
    /\ call.fn = "summarize" =>
          /\ Len(summaries) >= 1
          /\ call.arg = search_results[Len(summaries)]
          /\ call.ret = summaries[Len(summaries)]

C17_Witness ==
    /\ pc = "evaluate"
    /\ call.fn = "summarize"
    /\ call.arg = <<>>
    /\ Len(queries) = 2
    /\ StartsWith(search_results[1], NoResultsFor)
    /\ ncalls["summarize"] = 2

TotalCalls ==
    ncalls["planning"] + ncalls["search"] + ncalls["summarize"]
        + ncalls["evaluate"] + ncalls["filter"] + ncalls["answer"]

\* evaluations made in cycles that are over
EvaluatedCycles == IF pc \in Final THEN ncalls["evaluate"] - 1 ELSE cycle

\* a step of the session is one external call, made in its place
OrderedCall ==
    /\ TotalCalls' = TotalCalls + 1
    /\ call'.fn \in Fns /\ Calls(call'.fn)
    /\ Calls("planning") <=> TotalCalls = 0
    /\ (Calls("search") \/ Calls("summarize")) =>
          /\ ncalls["evaluate"] = cycle
          /\ ncalls["filter"] = 0
    /\ Calls("summarize") => Len(search_results) = Len(queries)
    /\ Calls("evaluate") =>
          /\ ncalls["evaluate"] = cycle
          /\ ncalls["search"] = ncalls["summarize"]
          /\ Len(search_results) = Len(queries)
          /\ Len(summaries) = Len(queries)
          /\ ncalls["filter"] = 0
    /\ Calls("filter") =>
          /\ ncalls["filter"] = 0
          /\ call.fn = "evaluate"
          /\ ncalls["evaluate"] = EvaluatedCycles + 1
          /\ call'.arg = all_sources
          /\ all_sources' = all_sources
    /\ Calls("answer") =>
          /\ ncalls["answer"] = 0
          /\ call.fn = "filter"
          /\ ncalls["filter"] = 1
    /\ pc' = "done" =>
          /\ ncalls'["planning"] = 1
          /\ ncalls'["filter"] = 1
          /\ ncalls'["answer"] = 1

\* C18: the external calls of a session are sequential and ordered: one
\* planning call first; in a cycle all searches and summaries before its
\* single evaluation; the selector once, after the last evaluation, on the
\* full pool; the synthesizer once, after the selector; one call per step.
C18_CallOrder == [][OrderedCall]_vars

C18_Witness ==
    /\ pc = "done"
    /\ ncalls["planning"] = 1
    /\ ncalls["search"] = 6
    /\ ncalls["summarize"] = 6
    /\ ncalls["evaluate"] = 3
    /\ ncalls["filter"] = 1
    /\ ncalls["answer"] = 1

\* C19: when every external call returns, every session reaches its end and
\* emits exactly one report, on the convergence path and on the
\* budget-exhaustion path: a session that has not ended can take a step,
\* and one that has ended has made its one synthesizer call.
C19_SessionEndsWithReport ==
    /\ pc = "done" \/ ENABLED Next
    /\ pc = "done" => ncalls["answer"] = 1 /\ report = call.ret

\* the pool before the step is a prefix of the pool after it
PoolIsExtended ==
    /\ Len(all_sources) <= Len(all_sources')
    /\ \A i \in 1..Len(all_sources) : all_sources'[i] = all_sources[i]

\* C20: the EvidencePool is append-only within a session: at every step the
\* previous pool is a prefix of the new one; no cycle, evaluation, selection
\* or synthesis removes, reorders or overwrites an entry.
C20_PoolAppendOnly == [][PoolIsExtended]_vars

C20_Witness ==
    /\ pc = "done"
    /\ Len(all_sources) = 5
    /\ all_sources[1] # all_sources[2]
    /\ Len(selected_sources) = 2
====
